---- MODULE Spec2Model ----
(***************************************************************************)
(* Model of src/rag.py: a Streamlit question-answering application.        *)
(*                                                                         *)
(* The program state is the Streamlit session (st.session_state): the      *)
(* conversation chain (None, or a ConversationalRetrievalChain owning a    *)
(* retriever over a FAISS vector store and a ConversationBufferMemory) and *)
(* chat_history (None, or the list of messages last returned by the        *)
(* chain).  Every user interaction is one run of the script; one action    *)
(* models one widget handler.                                              *)
(*                                                                         *)
(* Text is modelled by its line structure: a text is the sequence of the   *)
(* lengths of its "\n"-separated lines, every line made of characters that *)
(* occur nowhere else in the text and are not whitespace.  A chunk is the  *)
(* sequence of the lines joined into it.                                   *)
(*                                                                         *)
(* Optional values (Python None) are sequences of length at most one.      *)
(*                                                                         *)
(* outcome is what the last run of the script showed or returned, download *)
(* the data of the download button it rendered.  asks_since_clear is a     *)
(* history variable: -1 until the first clear, then the number of answered *)
(* questions since the last clear (2 standing for "2 or more").            *)
(***************************************************************************)
EXTENDS Integers, Sequences, FiniteSets, TLC

VARIABLES conversation, chat_history, outcome, download, settings,
          asks_since_clear

vars == <<conversation, chat_history, outcome, download, settings, asks_since_clear>>

None == <<>>
Some(x) == <<x>>

(***************************************************************************)
(* Bounds of the model.                                                    *)
(***************************************************************************)
\* at most MaxAsks question/answer pairs are held by one chain's memory
MaxAsks == 2
\* uploaded documents have at most MaxLines lines
MaxLines == 3

(***************************************************************************)
(* Inputs.                                                                 *)
(***************************************************************************)
\* values of the "Ask a question:" text box: nothing typed, a blank, a word
Questions == {<<>>, <<" ">>, <<"q">>}
\* texts the generation service may return
Answers == {<<"y">>, <<"n">>}
\* line lengths of the documents of the ingestion specification
LineLens == {0, 150, 200, 450, 1100}
\* line lengths of the documents of the session specification
SessionLineLens == {0, 450}

RECURSIVE Texts(_, _)
Texts(lens, n) ==
    IF n = 0 THEN {<<>>}
    ELSE LET shorter == Texts(lens, n - 1)
         IN shorter \cup {Append(t, l) : t \in {s \in shorter : Len(s) = n - 1}, l \in lens}

IngestDocs == Texts(LineLens, MaxLines)
SessionDocs == Texts(SessionLineLens, MaxLines)

(***************************************************************************)
(* get_text_chunks: CharacterTextSplitter(separator = "\n",                *)
(* chunk_size = 1000, chunk_overlap = 200, length_function = len)          *)
(* .split_text(text).                                                      *)
(***************************************************************************)
chunk_size == 1000
chunk_overlap == 200
\* len("\n")
separator_len == 1

\* text.split("\n") without the empty pieces; a piece keeps its line number
RECURSIVE SplitLines(_, _)
SplitLines(text, i) ==
    IF i > Len(text) THEN <<>>
    ELSE IF text[i] = 0 THEN SplitLines(text, i + 1)
    ELSE <<[line |-> i, len |-> text[i]]>> \o SplitLines(text, i + 1)

\* len(separator.join(docs))
RECURSIVE JoinLen(_)
JoinLen(docs) ==
    IF docs = <<>> THEN 0
    ELSE docs[1].len + (IF Len(docs) > 1 THEN separator_len ELSE 0) + JoinLen(Tail(docs))

\* the popping loop of the splitter: drop leading pieces of the emitted chunk
\* until what is kept is no longer than chunk_overlap and leaves room for the
\* next piece
RECURSIVE PopOverlap(_, _, _)
PopOverlap(current_doc, total, len) ==
    IF \/ total > chunk_overlap
       \/ /\ total + len + (IF Len(current_doc) > 0 THEN separator_len ELSE 0) > chunk_size
          /\ total > 0
    THEN PopOverlap(Tail(current_doc),
                    total - (current_doc[1].len
                             + (IF Len(current_doc) > 1 THEN separator_len ELSE 0)),
                    len)
    ELSE <<current_doc, total>>

\* the merging loop of the splitter over splits[i..]
RECURSIVE MergeSplits(_, _, _, _, _)
MergeSplits(splits, i, docs, current_doc, total) ==
    IF i > Len(splits)
    THEN IF current_doc = <<>> THEN docs ELSE Append(docs, current_doc)
    ELSE LET d == splits[i]
             over == total + d.len
                       + (IF Len(current_doc) > 0 THEN separator_len ELSE 0) > chunk_size
             emit == over /\ Len(current_doc) > 0
             kept == IF emit THEN PopOverlap(current_doc, total, d.len)
                     ELSE <<current_doc, total>>
             doc2 == Append(kept[1], d)
         IN MergeSplits(splits, i + 1,
                        IF emit THEN Append(docs, current_doc) ELSE docs,
                        doc2,
                        kept[2] + d.len + (IF Len(doc2) > 1 THEN separator_len ELSE 0))

get_text_chunks(text) == MergeSplits(SplitLines(text, 1), 1, <<>>, <<>>, 0)

(***************************************************************************)
(* get_vectorstore and get_conversation_chain.                             *)
(***************************************************************************)
\* FAISS.from_texts(texts = text_chunks, ...): one entry per chunk, in order
get_vectorstore(text_chunks) == text_chunks

\* a chain over the store's retriever with a new, empty ConversationBufferMemory
get_conversation_chain(vectorstore) == [vectorstore |-> vectorstore, memory |-> <<>>]

HumanMessage(content) == [type |-> "human", content |-> content]
AIMessage(content) == [type |-> "ai", content |-> content]

\* conversation({"question": user_input}) returning: the chain saves the
\* question and the answer to its memory after the answer was generated
ChainCall(chain, user_input, answer) ==
    [chain EXCEPT !.memory = @ \o <<HumanMessage(user_input), AIMessage(answer)>>]

\* the fault of a chain that saves the question before the answer exists
ChainRaise_SavesQuestion(chain, user_input) ==
    [chain EXCEPT !.memory = @ \o <<HumanMessage(user_input)>>]

\* conversation({"question": user_input}) raising: nothing was saved
ChainRaise(chain, user_input) == chain

\* what a run of the script showed or returned
Result(op, err, question, answer) ==
    [op |-> op, err |-> err, question |-> question, answer |-> answer]

Init ==
    /\ conversation = None
    /\ chat_history = None
    /\ outcome = Result("start", "ok", <<>>, <<>>)
    /\ download = None
    /\ settings = None
    /\ asks_since_clear = -1

\* the fault of a handler without the check for a missing chain: calling
\* None raises a TypeError
handle_userinput_NoGuard(user_input) ==
    IF conversation = None
    THEN /\ outcome' = Result("ask", "TypeError", user_input, <<>>)
         /\ UNCHANGED <<conversation, chat_history>>
    ELSE \/ \E answer \in Answers :
               /\ Len(conversation[1].memory) < 2 * MaxAsks
               /\ conversation' = Some(ChainCall(conversation[1], user_input, answer))
               /\ chat_history' = Some(conversation'[1].memory)
               /\ outcome' = Result("ask", "ok", user_input, answer)
         \/ /\ conversation' = Some(ChainRaise(conversation[1], user_input))
            /\ UNCHANGED chat_history
            /\ outcome' = Result("ask", "GenerationServiceError", user_input, <<>>)

(***************************************************************************)
(* handle_userinput.  response["chat_history"] is the list object held by  *)
(* the chain's memory, so after the call it shows the saved turns.         *)
(***************************************************************************)
handle_userinput(user_input) ==
    IF conversation = None
    THEN /\ outcome' = Result("ask", "NotReady", user_input, <<>>)
         /\ UNCHANGED <<conversation, chat_history>>
    ELSE \/ \E answer \in Answers :
               /\ Len(conversation[1].memory) < 2 * MaxAsks
               /\ conversation' = Some(ChainCall(conversation[1], user_input, answer))
               /\ chat_history' = Some(conversation'[1].memory)
               /\ outcome' = Result("ask", "ok", user_input, answer)
         \/ /\ conversation' = Some(ChainRaise(conversation[1], user_input))
            /\ UNCHANGED chat_history
            /\ outcome' = Result("ask", "GenerationServiceError", user_input, <<>>)

\* main: user_input = st.text_input(...); if user_input: handle_userinput(...)
TextInput(user_input) ==
    /\ IF user_input # <<>>
       THEN handle_userinput(user_input)
       ELSE /\ outcome' = Result("rerun", "ok", user_input, <<>>)
            /\ UNCHANGED <<conversation, chat_history>>
    /\ download' = None
    /\ asks_since_clear' =
           IF outcome'.op = "ask" /\ outcome'.err = "ok" /\ asks_since_clear \in {0, 1}
           THEN asks_since_clear + 1
           ELSE asks_since_clear
    /\ UNCHANGED settings

(***************************************************************************)
(* main: the Process button.  FAISS.from_texts raises on an empty list of  *)
(* chunks, and then no chain is installed.                                 *)
(***************************************************************************)
Process(raw_text) ==
    LET text_chunks == get_text_chunks(raw_text)
    IN /\ IF text_chunks = <<>>
          THEN /\ outcome' = Result("process", "IndexError", <<>>, <<>>)
               /\ UNCHANGED conversation
          ELSE /\ conversation' = Some(get_conversation_chain(get_vectorstore(text_chunks)))
               /\ outcome' = Result("process", "ok", <<>>, <<>>)
       /\ download' = None
       /\ UNCHANGED <<chat_history, settings, asks_since_clear>>

\* the fault of a clear button that resets chat_history and keeps the chain
add_clear_button_HistoryOnly ==
    /\ chat_history' = None
    /\ outcome' = Result("clear", "ok", <<>>, <<>>)
    /\ download' = None
    /\ asks_since_clear' = 0
    /\ UNCHANGED <<conversation, settings>>

(***************************************************************************)
(* add_clear_button, with the button pressed.                              *)
(***************************************************************************)
add_clear_button ==
    /\ chat_history' = None
    /\ conversation' = None
    /\ outcome' = Result("clear", "ok", <<>>, <<>>)
    /\ download' = None
    /\ asks_since_clear' = 0
    /\ UNCHANGED settings

(***************************************************************************)
(* add_download_button.                                                    *)
(***************************************************************************)
\* the fault of a label chosen by a type tag no message has
RoleLabel_WrongTag(message) ==
    IF message.type = "bot" THEN <<"B", "o", "t">> ELSE <<"U", "s", "e", "r">>

\* 'Bot' if message.type == 'ai' else 'User'
RoleLabel(message) ==
    IF message.type = "ai" THEN <<"B", "o", "t">> ELSE <<"U", "s", "e", "r">>

\* the loop building chat_text, one f-string per message
RECURSIVE chat_text(_)
chat_text(messages) ==
    IF messages = <<>> THEN <<>>
    ELSE RoleLabel(messages[1]) \o <<":", " ">> \o messages[1].content \o <<"\n", "\n">>
         \o chat_text(Tail(messages))

add_download_button ==
    /\ download' = IF chat_history # None /\ chat_history[1] # <<>>
                   THEN Some(chat_text(chat_history[1]))
                   ELSE None
    /\ outcome' = Result("download", "ok", <<>>, <<>>)
    /\ UNCHANGED <<conversation, chat_history, settings, asks_since_clear>>

(***************************************************************************)
(* add_sidebar_settings: a run of the script after one of the three        *)
(* sliders was moved; it returns the values of all three (temperature in   *)
(* tenths).  A slider that was never moved has its default value.          *)
(***************************************************************************)
Slider(min_value, max_value, step) ==
    {v \in min_value..max_value : (v - min_value) % step = 0}

SliderValues ==
    [temperature |-> Slider(0, 10, 1), chunk_size |-> Slider(500, 2500, 100),
     chunk_overlap |-> Slider(0, 500, 50)]

SliderDefaults == [temperature |-> 5, chunk_size |-> 1000, chunk_overlap |-> 200]

add_sidebar_settings ==
    /\ \E slider \in DOMAIN SliderValues : \E value \in SliderValues[slider] :
          settings' = Some([(IF settings = None THEN SliderDefaults ELSE settings[1])
                              EXCEPT ![slider] = value])
    /\ outcome' = Result("settings", "ok", <<>>, <<>>)
    /\ download' = None
    /\ UNCHANGED <<conversation, chat_history, asks_since_clear>>

Next ==
    \/ \E user_input \in Questions : TextInput(user_input)
    \/ \E raw_text \in SessionDocs : Process(raw_text)
    \/ add_clear_button
    \/ add_download_button

Spec == Init /\ [][Next]_vars

\* ingestion alone: Process over the larger documents
NextIngest == \E raw_text \in IngestDocs : Process(raw_text)

SpecIngest == Init /\ [][NextIngest]_vars

\* the settings sidebar next to Process
NextSettings ==
    \/ add_sidebar_settings
    \/ \E raw_text \in SessionDocs : Process(raw_text)

SpecSettings == Init /\ [][NextSettings]_vars

(***************************************************************************)
(* Properties.                                                             *)
(***************************************************************************)
\* the messages of an optional history, None read as the empty history
History(history) == IF history = None THEN <<>> ELSE history[1]
\* the turn log of the installed chain's memory, empty when there is no chain
Memory(chain) == IF chain = None THEN <<>> ELSE chain[1].memory
\* Python's str.isspace over the model's characters, true of the empty text too
IsBlank(text) == \A i \in 1..Len(text) : text[i] = " "

\* C1: a question asked while no conversation chain exists ends in NotReady,
\* no chain is created or called, and the history stays as it was: empty.
C1_NotReady ==
    [][(conversation = None /\ outcome'.op = "ask")
          => /\ outcome'.err = "NotReady"
             /\ outcome'.answer = <<>>
             /\ conversation' = None
             /\ chat_history' = chat_history
             /\ chat_history = None]_vars

C1_Witness ==
    /\ outcome.op = "ask"
    /\ outcome.err = "NotReady"
    /\ conversation = None
    /\ asks_since_clear = 0

\* C2: when the generation service fails during an ask on a ready engine, the
\* error reaches the caller, the chain's memory and chat_history are what they
\* were before the call, and the chain is still installed for a retry.
C2_FailedAskKeepsHistory ==
    [][(outcome'.op = "ask" /\ outcome'.err = "GenerationServiceError")
          => /\ conversation # None
             /\ conversation' = conversation
             /\ chat_history' = chat_history]_vars

C2_Witness ==
    /\ outcome.op = "ask"
    /\ outcome.err = "GenerationServiceError"
    /\ Len(History(chat_history)) = 2
    /\ Len(Memory(conversation)) = 2

\* C3: every step leaves the history as it is, or extends it by the asked
\* question's user turn followed by its assistant turn, or is a clear that
\* empties it; and the turns alternate user, assistant from the first on.
C3_HistoryAppendOnly ==
    [][LET h == History(chat_history)
           h2 == History(chat_history')
       IN /\ \/ h2 = h
             \/ outcome'.op = "clear" /\ h2 = <<>>
             \/ /\ outcome'.op = "ask" /\ outcome'.err = "ok"
                /\ h2 = h \o <<HumanMessage(outcome'.question),
                               AIMessage(outcome'.answer)>>
          /\ \A i \in 1..Len(h2) :
                h2[i].type = (IF i % 2 = 1 THEN "human" ELSE "ai")]_vars

\* C4: a clear on a ready engine leaves the chain installed over the same
\* vector store, with an empty memory, so that the next ask is answered.
C4_ClearKeepsIndex ==
    [][(outcome'.op = "clear" /\ conversation # None)
          => /\ conversation' # None
             /\ conversation'[1].vectorstore = conversation[1].vectorstore
             /\ conversation'[1].memory = <<>>]_vars

\* C5: a clear leaves the history (chat_history and memory) empty whatever it
\* held; an empty history stays empty until a question is answered, and then
\* holds exactly that question's user turn and its assistant turn, the user
\* turn at position zero.
C5_ClearStartsNewSequence ==
    [][LET h == History(chat_history)
           h2 == History(chat_history')
           answered == outcome'.op = "ask" /\ outcome'.err = "ok"
       IN /\ outcome'.op = "clear" => (h2 = <<>> /\ Memory(conversation') = <<>>)
          /\ (h = <<>> /\ ~answered) => h2 = <<>>
          /\ (h = <<>> /\ answered)
                => h2 = <<HumanMessage(outcome'.question),
                          AIMessage(outcome'.answer)>>]_vars

C5_Witness ==
    /\ asks_since_clear = 1
    /\ outcome.op = "ask"
    /\ outcome.err = "ok"
    /\ Len(History(chat_history)) = 2

\* C6: a blank question asked of a ready engine is rejected with InvalidInput
\* and neither the chain (its memory) nor chat_history changes.
C6_BlankQuestionRejected ==
    [][(outcome'.op = "ask" /\ IsBlank(outcome'.question) /\ conversation # None)
          => /\ outcome'.err = "InvalidInput"
             /\ conversation' = conversation
             /\ chat_history' = chat_history]_vars

\* C7: the chunker's configuration has size > 0 and 0 <= overlap < size, and
\* every pair of chunk size and overlap returned by the settings sidebar has
\* overlap < size or was rejected with InvalidConfiguration.
C7_ValidChunkConfiguration ==
    /\ chunk_size > 0 /\ 0 <= chunk_overlap /\ chunk_overlap < chunk_size
    /\ settings # None
          => \/ settings[1].chunk_overlap < settings[1].chunk_size
             \/ outcome.err = "InvalidConfiguration"

\* the characters two consecutive chunks share: the longest run of lines that
\* ends the first and begins the second, joined
RECURSIVE SharedLen(_, _, _)
SharedLen(a, b, k) ==
    IF k = 0 THEN 0
    ELSE IF k <= Len(a) /\ k <= Len(b)
            /\ SubSeq(a, Len(a) - k + 1, Len(a)) = SubSeq(b, 1, k)
         THEN JoinLen(SubSeq(b, 1, k))
         ELSE SharedLen(a, b, k - 1)

\* C8: of the chunks in the vector store, every one but the last is at most
\* chunk_size characters long, and every one after the first begins with
\* exactly the last chunk_overlap characters of the one before it.
C8_ChunkSizeAndOverlap ==
    conversation # None =>
        LET chunks == conversation[1].vectorstore
        IN /\ \A i \in 1..(Len(chunks) - 1) : JoinLen(chunks[i]) <= chunk_size
           /\ \A i \in 2..Len(chunks) :
                 SharedLen(chunks[i - 1], chunks[i], Len(chunks[i])) = chunk_overlap

\* C9: the exported transcript is, turn by turn in history order, the role
\* label of the turn's own type ("Bot" for ai, "User" otherwise), ": ", the
\* turn's text and two newlines, and nothing else; with no history there is
\* no transcript.
C9_Transcript ==
    outcome.op = "download" =>
        LET h == History(chat_history)
            label(m) == IF m.type = "ai" THEN <<"B", "o", "t">>
                        ELSE <<"U", "s", "e", "r">>
            width(m) == Len(label(m)) + 2 + Len(m.content) + 2
            end[i \in 0..Len(h)] == IF i = 0 THEN 0 ELSE end[i - 1] + width(h[i])
        IN IF h = <<>> THEN download = None
           ELSE /\ download # None
                /\ Len(download[1]) = end[Len(h)]
                /\ \A i \in 1..Len(h) :
                      LET entry == SubSeq(download[1], end[i - 1] + 1, end[i])
                          n == Len(label(h[i]))
                      IN /\ SubSeq(entry, 1, n) = label(h[i])
                         /\ SubSeq(entry, n + 1, n + 2) = <<":", " ">>
                         /\ SubSeq(entry, n + 3, Len(entry) - 2) = h[i].content
                         /\ SubSeq(entry, Len(entry) - 1, Len(entry)) = <<"\n", "\n">>

C9_Witness ==
    /\ outcome.op = "download"
    /\ download # None
    /\ Len(History(chat_history)) = 4

\* C10: chat_history always equals the turn log of the installed chain's
\* memory, None and a missing chain read as empty.
C10_HistoryIsMemory == History(chat_history) = Memory(conversation)

====
